---- MODULE Spec2Model ----
(***************************************************************************)
(* go_networks.generate_v2: pair properties aggregated from the SIF dump   *)
(* (generate_props / get_pair_properties, with the property cache file),   *)
(* the GO id -> genes map (genes_by_go_id) and build_networks.             *)
(*                                                                         *)
(* Strings that the code takes apart (gene names and pair keys, split on   *)
(* "|"; GAF qualifiers, tested with startswith) are sequences of tokens.   *)
(* A dict is a function whose DOMAIN is its key set.                       *)
(***************************************************************************)
EXTENDS Integers, Sequences, FiniteSets, TLC

\* ------------------------------------------------------------------ bounds
MaxRows == 2
MaxGoaRows == 2

\* ------------------------------------------------------------------ strings
Sep == "|"

\* Code points of the characters used in gene names (python compares str by
\* code point).
Ord(c) == CASE c = "A" -> 65 [] c = "B" -> 66 [] c = "C" -> 67 [] OTHER -> 124

RECURSIVE StrLess(_, _)
StrLess(s, t) ==
    IF s = <<>> THEN t # <<>>
    ELSE IF t = <<>> THEN FALSE
    ELSE IF Head(s) = Head(t) THEN StrLess(Tail(s), Tail(t))
    ELSE Ord(Head(s)) < Ord(Head(t))

\* str.split(sep): the list of the parts between the separators.
RECURSIVE SplitFrom(_, _, _)
SplitFrom(s, sep, cur) ==
    IF s = <<>> THEN <<cur>>
    ELSE IF Head(s) = sep THEN <<cur>> \o SplitFrom(Tail(s), sep, <<>>)
    ELSE SplitFrom(Tail(s), sep, Append(cur, Head(s)))

Split(s, sep) == SplitFrom(s, sep, <<>>)

\* str.startswith(prefix)
StartsWith(s, prefix) ==
    /\ Len(s) >= Len(prefix)
    /\ SubSeq(s, 1, Len(prefix)) = prefix

\* ------------------------------------------------------------------ the SIF table
NameA == <<"A">>
NameB == <<"B">>
NameC == <<"C">>
NameBar == <<"B", "|", "C">>

\* (ns, id, name) triples of the agents of a table
Agents ==
    { [ns |-> "HGNC", id |-> "1", name |-> NameA],
      [ns |-> "HGNC", id |-> "2", name |-> NameB],
      [ns |-> "HGNC", id |-> "3", name |-> NameC] }

\* agents of a table in which the name A occurs with two ids
AgentsAmbiguous ==
    { [ns |-> "HGNC", id |-> "1", name |-> NameA],
      [ns |-> "HGNC", id |-> "9", name |-> NameA],
      [ns |-> "HGNC", id |-> "2", name |-> NameB] }

\* agents of a table in which one name contains the separator of the pair key
AgentsBar ==
    { [ns |-> "HGNC", id |-> "1", name |-> NameA],
      [ns |-> "HGNC", id |-> "2", name |-> NameB],
      [ns |-> "HGNC", id |-> "4", name |-> NameBar] }

DirectedTypes == {"Activation"}
UndirectedTypes == {"Complex"}
StmtTypes == DirectedTypes \cup UndirectedTypes

\* The statements of the dump: a hash stands for one statement, with its type
\* and its evidence count.
Statements ==
    { [stmt_hash |-> "h1", stmt_type |-> "Activation", evidence_count |-> 3],
      [stmt_hash |-> "h2", stmt_type |-> "Complex", evidence_count |-> 5],
      [stmt_hash |-> "h3", stmt_type |-> "Activation", evidence_count |-> 5] }

\* The rows: a statement between two agents of different names (self loops
\* are filtered out upstream).
SifRows(agents) ==
    { [agA_ns |-> x[1].ns, agA_id |-> x[1].id, agA_name |-> x[1].name,
       agB_ns |-> x[2].ns, agB_id |-> x[2].id, agB_name |-> x[2].name,
       stmt_type |-> x[3].stmt_type, stmt_hash |-> x[3].stmt_hash,
       evidence_count |-> x[3].evidence_count] :
         x \in { y \in agents \X agents \X Statements : y[1].name # y[2].name } }

SifTables(agents) == UNION { [1..n -> SifRows(agents)] : n \in 0..MaxRows }

\* ------------------------------------------------------------------ go_networks.util
\* set_pair: the "pair" column, the two names in sorted order joined by "|"
\* (get_pair_properties splits the key on "|").
PairKey(a, b) == IF StrLess(b, a) THEN b \o <<Sep>> \o a ELSE a \o <<Sep>> \o b

SetPair(r) == PairKey(r.agA_name, r.agB_name)

\* set_directed: the "directed" column, a directed type whose subject is the
\* first name of the pair.
SetDirected(r) ==
    /\ r.stmt_type \in DirectedTypes
    /\ ~StrLess(r.agB_name, r.agA_name)

\* set_reverse_directed: the "reverse_directed" column, a directed type whose
\* subject is the second name of the pair.
SetReverseDirected(r) ==
    /\ r.stmt_type \in DirectedTypes
    /\ StrLess(r.agB_name, r.agA_name)

\* ------------------------------------------------------------------ pandas / numpy
\* builtin all over the values of a group (a variant of the aggregate below)
RECURSIVE AllOf(_)
AllOf(bs) == IF bs = <<>> THEN TRUE ELSE Head(bs) /\ AllOf(Tail(bs))

\* builtin any over the values of a group, in row order
RECURSIVE AnyOf(_)
AnyOf(bs) == IF bs = <<>> THEN FALSE ELSE Head(bs) \/ AnyOf(Tail(bs))

\* the last value of a group (a variant of the sum below)
LastOf(xs) == IF xs = <<>> THEN 0 ELSE xs[Len(xs)]

\* np.sum over the values of a group, in row order
RECURSIVE NpSum(_)
NpSum(xs) == IF xs = <<>> THEN 0 ELSE Head(xs) + NpSum(Tail(xs))

\* the rows of one group, in table order
GroupRows(df, pair) == SelectSeq(df, LAMBDA r : SetPair(r) = pair)

GroupTypeRows(df, pair, t) ==
    SelectSeq(df, LAMBDA r : SetPair(r) = pair /\ r.stmt_type = t)

\* a column of some rows, as a list
Column(rows, col) == [ i \in 1..Len(rows) |-> rows[i][col] ]

\* the "directed" and "reverse_directed" columns of some rows
DirectedColumn(rows) == [ i \in 1..Len(rows) |-> SetDirected(rows[i]) ]
ReverseDirectedColumn(rows) == [ i \in 1..Len(rows) |-> SetReverseDirected(rows[i]) ]

Pairs(df) == { SetPair(df[i]) : i \in 1..Len(df) }

\* df.groupby(["pair", "stmt_type"]).aggregate(np.sum).evidence_count.to_dict():
\* {(pair, stmt_type): sum of evidence_count over the rows of the group}
EvCountTupleDict(df) ==
    [ k \in { <<SetPair(df[i]), df[i].stmt_type>> : i \in 1..Len(df) } |->
        NpSum(Column(GroupTypeRows(df, k[1], k[2]), "evidence_count")) ]

\* _get_nested_dict: {(a, b): v} to {a: {b: v}}
GetNestedDict(tuple_dict) ==
    [ p \in { k[1] : k \in DOMAIN tuple_dict } |->
        [ s \in { k[2] : k \in { x \in DOMAIN tuple_dict : x[1] = p } } |->
            tuple_dict[<<p, s>>] ] ]

\* dict.get(key, {})
EmptyDict == <<>>
DictGet(d, k) == IF k \in DOMAIN d THEN d[k] ELSE EmptyDict

\* ------------------------------------------------------------------ generate_props
NoneValue == "None"
PropsPath == "props.pkl"
\* the file system at PropsPath: whether a file is there, and its bytes
NoFile == [exists |-> FALSE, data |-> <<>>]
FileOf(data) == [exists |-> TRUE, data |-> data]

\* the values of the props_file argument: None, the empty string, a path
PropsFileArgs == {NoneValue, "", PropsPath}

\* `if props_file:`
Truthy(pf) == pf # NoneValue /\ pf # ""

\* `props_file is not None and Path(props_file).is_file()`
CacheHit(pf, files) == pf # NoneValue /\ pf = PropsPath /\ files.exists

\* set(zip(agA_ns, agA_id, agA_name)).union(set(zip(agB_ns, agB_id, agB_name)))
NsIdNameTups(df) ==
    { <<df[i].agA_ns, df[i].agA_id, df[i].agA_name>> : i \in 1..Len(df) } \cup
    { <<df[i].agB_ns, df[i].agB_id, df[i].agB_name>> : i \in 1..Len(df) }

\* {name: (ns, _id) for ns, _id, name in ns_id_name_tups}: a later tuple of the
\* same name overwrites an earlier one, and a set of tuples of str iterates in
\* an order that the interpreter's string hashing decides, so a name that has
\* several (ns, id) ends with any one of them.
NameEntityMaps(df) ==
    LET tups == NsIdNameTups(df)
        names == { t[3] : t \in tups }
        nsids == { <<t[1], t[2]>> : t \in tups }
    IN { m \in [names -> nsids] :
            \A n \in names : <<m[n][1], m[n][2], n>> \in tups }

\* sif_df.groupby("pair").aggregate({"reverse_directed": any, "directed": any})
\*       .to_dict("index")
DirDict(df) ==
    [ p \in Pairs(df) |->
        [ reverse_directed |->
              AnyOf(ReverseDirectedColumn(GroupRows(df, p))),
          directed |->
              AnyOf(DirectedColumn(GroupRows(df, p))) ] ]

\* sif_df[sif_df.directed] ... evidence counts per (pair, stmt_type)
DirEvCount(df) ==
    GetNestedDict(EvCountTupleDict(SelectSeq(df, LAMBDA r : SetDirected(r))))

\* sif_df[sif_df.reverse_directed] ...
RevDirEvCount(df) ==
    GetNestedDict(EvCountTupleDict(SelectSeq(df, LAMBDA r : SetReverseDirected(r))))

\* sif_df[sif_df.directed == False] ...
UndirEvCount(df) ==
    GetNestedDict(EvCountTupleDict(SelectSeq(df, LAMBDA r : SetDirected(r) = FALSE)))

\* the stmt_hash list of every (pair, stmt_type), nested
HashTypeDict(df) ==
    GetNestedDict(
        [ k \in { <<SetPair(df[i]), df[i].stmt_type>> : i \in 1..Len(df) } |->
            Column(GroupTypeRows(df, k[1], k[2]), "stmt_hash") ])

\* ------------------------------------------------------------------ get_pair_properties
\* `a_name, b_name = pair.split("|")` needs exactly two parts, and both names
\* are looked up in pair_entity_dict; otherwise the loop raises.
PairRaises(pair, pair_entity_dict) ==
    LET parts == Split(pair, Sep)
    IN \/ Len(parts) # 2
       \/ parts[1] \notin DOMAIN pair_entity_dict
       \/ parts[2] \notin DOMAIN pair_entity_dict

GetPairPropertiesRaises(dir_dict, pair_entity_dict) ==
    \E pair \in DOMAIN dir_dict : PairRaises(pair, pair_entity_dict)

Entity(ns, id, name) == [ns |-> ns, id |-> id, name |-> name]

PairProperty(pair, is_dir_dict, dir_ec, r_dir_ec, u_dir_ec, thd, pair_entity_dict) ==
    LET parts == Split(pair, Sep)
        a == Entity(pair_entity_dict[parts[1]][1], pair_entity_dict[parts[1]][2], parts[1])
        b == Entity(pair_entity_dict[parts[2]][1], pair_entity_dict[parts[2]][2], parts[2])
    IN [ a |-> a, b |-> b, order |-> <<a.name, b.name>>, hashes |-> thd,
         directed |-> is_dir_dict.directed,
         reverse_directed |-> is_dir_dict.reverse_directed,
         directed_evidence_count |-> dir_ec,
         reverse_directed_evidence_count |-> r_dir_ec,
         undirected_evidence_count |-> u_dir_ec ]

GetPairProperties(dir_dict, dir_ev_count, rev_dir_ev_count, undir_ev_count, type_hash_list, pair_entity_dict) ==
    [ pair \in DOMAIN dir_dict |->
        PairProperty(pair, dir_dict[pair],
                     DictGet(dir_ev_count, pair),
                     DictGet(rev_dir_ev_count, pair),
                     DictGet(undir_ev_count, pair),
                     type_hash_list[pair], pair_entity_dict) ]

\* ------------------------------------------------------------------ pickle
\* The keys of a dict built from a groupby come in sorted order.
RECURSIVE SortedKeys(_)
SortedKeys(S) ==
    IF S = {} THEN <<>>
    ELSE LET least == CHOOSE x \in S : \A y \in S \ {x} : StrLess(x, y)
         IN <<least>> \o SortedKeys(S \ {least})

\* a dump that keeps the first item only (a variant of the dump below)
PickleDumpHead(obj) ==
    LET keys == SortedKeys(DOMAIN obj)
    IN [ i \in 1..(IF keys = <<>> THEN 0 ELSE 1) |-> <<keys[i], obj[keys[i]]>> ]

\* pickle.dump of a dict: its (key, value) items, in the dict's order
PickleDump(obj) ==
    LET keys == SortedKeys(DOMAIN obj)
    IN [ i \in 1..Len(keys) |-> <<keys[i], obj[keys[i]]>> ]

\* pickle.load: the dict of the items
PickleLoad(data) ==
    [ k \in { data[i][1] : i \in 1..Len(data) } |->
        (CHOOSE it \in { data[i] : i \in 1..Len(data) } : it[1] = k)[2] ]

\* ------------------------------------------------------------------ state
VARIABLES
    sif_df,        \* the statement table handed to generate_props
    files,         \* the file at PropsPath
    pc,            \* position of the running generate_props call, or "idle"
    props_file,    \* the props_file argument that generate() passes on
    locals,        \* the dicts of the compute branch, between its steps
    properties,    \* the local `properties` of the call
    result,        \* outcome of the last call that ended
    prev,          \* outcome of the call that ended before it
    files_at_call, \* `files` when the running (or last) call started
    goa_df,        \* the rows of the GAF file read by genes_by_go_id
    go2genes,      \* the mapping returned by genes_by_go_id
    net_args,      \* the arguments of the last build_networks call
    networks       \* what build_networks handed on, per GO id

props_vars == <<sif_df, files, pc, props_file, locals, properties, result, prev,
                files_at_call>>
go_vars == <<goa_df, go2genes, net_args, networks>>
vars == <<props_vars, go_vars>>

NoOutcome == [how |-> "none", pf |-> NoneValue, value |-> EmptyDict]

\* lines 130-210: the columns, the name -> (ns, id) mapping and the group-bys
Aggregation(df, pair_entity_mapping) ==
    [ pair_entity_mapping |-> pair_entity_mapping,
      dir_dict |-> DirDict(df),
      dir_ev_count |-> DirEvCount(df),
      rev_dir_ev_count |-> RevDirEvCount(df),
      undir_ev_count |-> UndirEvCount(df),
      hash_type_dict |-> HashTypeDict(df) ]

NoLocals == Aggregation(<<>>, EmptyDict)

\* generate_props, cache branch: load the pickled lookup and return it
LoadProps ==
    /\ pc = "idle"
    /\ CacheHit(props_file, files)
    /\ files_at_call' = files
    /\ properties' = PickleLoad(files.data)
    /\ result' = [how |-> "loaded", pf |-> props_file, value |-> properties']
    /\ prev' = result
    /\ UNCHANGED <<sif_df, files, pc, props_file, locals, go_vars>>

\* generate_props, compute branch up to the call of get_pair_properties
Aggregate ==
    /\ pc = "idle"
    /\ ~CacheHit(props_file, files)
    /\ files_at_call' = files
    /\ \E m \in NameEntityMaps(sif_df) : locals' = Aggregation(sif_df, m)
    /\ pc' = "assemble"
    /\ UNCHANGED <<sif_df, files, props_file, properties, result, prev, go_vars>>

\* a variant that opens the cache file for writing around the assembly
AssembleInsideOpenFile ==
    /\ pc = "assemble"
    /\ files' = IF Truthy(props_file) THEN FileOf(<<>>) ELSE files
    /\ IF GetPairPropertiesRaises(locals.dir_dict, locals.pair_entity_mapping)
       THEN /\ pc' = "idle"
            /\ result' = [how |-> "raised", pf |-> props_file, value |-> EmptyDict]
            /\ prev' = result
            /\ UNCHANGED properties
       ELSE /\ properties' = GetPairProperties(
                 locals.dir_dict, locals.dir_ev_count, locals.rev_dir_ev_count,
                 locals.undir_ev_count, locals.hash_type_dict,
                 locals.pair_entity_mapping)
            /\ pc' = "save"
            /\ UNCHANGED <<result, prev>>
    /\ UNCHANGED <<sif_df, props_file, locals, files_at_call, go_vars>>

\* the call of get_pair_properties: it returns the lookup, or raises and ends
\* generate_props
Assemble ==
    /\ pc = "assemble"
    /\ IF GetPairPropertiesRaises(locals.dir_dict, locals.pair_entity_mapping)
       THEN /\ pc' = "idle"
            /\ result' = [how |-> "raised", pf |-> props_file, value |-> EmptyDict]
            /\ prev' = result
            /\ UNCHANGED properties
       ELSE /\ properties' = GetPairProperties(
                 locals.dir_dict, locals.dir_ev_count, locals.rev_dir_ev_count,
                 locals.undir_ev_count, locals.hash_type_dict,
                 locals.pair_entity_mapping)
            /\ pc' = "save"
            /\ UNCHANGED <<result, prev>>
    /\ UNCHANGED <<sif_df, files, props_file, locals, files_at_call, go_vars>>

\* `if props_file:` write the lookup; then return it
Save ==
    /\ pc = "save"
    /\ files' = IF Truthy(props_file) THEN FileOf(PickleDump(properties)) ELSE files
    /\ result' = [how |-> "computed", pf |-> props_file, value |-> properties]
    /\ prev' = result
    /\ pc' = "idle"
    /\ UNCHANGED <<sif_df, props_file, locals, properties, files_at_call, go_vars>>

\* ------------------------------------------------------------------ genes_by_go_id
GoTerms == {"T_child", "T_parent", "T_root"}

\* the ontology hierarchy, (child, parent) edges; genes_by_go_id does not read it
GoEdges == { <<"T_child", "T_parent">>, <<"T_parent", "T_root">> }

RECURSIVE DescendantsWithin(_, _)
DescendantsWithin(t, n) ==
    IF n = 0 THEN {}
    ELSE LET children == { e[1] : e \in { x \in GoEdges : x[2] = t } }
         IN children \cup UNION { DescendantsWithin(c, n - 1) : c \in children }

\* the structural descendants of a term
Descendants(t) == DescendantsWithin(t, Cardinality(GoTerms))

UniprotIds == {"P1", "P2", "P9"}

\* uniprot_client.get_gene_name: the gene name of a UniProt id, None for an id
\* it has no name for (P9) and for anything that is not a UniProt id
\* (None is the empty name here: no gene name is empty)
NoGeneName == <<>>

GetGeneName(up_id) ==
    CASE up_id = "P1" -> NameA
      [] up_id = "P2" -> NameB
      [] OTHER -> NoGeneName

Not == <<"NOT">>
Qualifiers == { <<"involved_in">>, <<"NOT", "|", "involved_in">> }

GoaRows == [DB_ID : UniprotIds, Qualifier : Qualifiers, GO_ID : GoTerms]

GoaTables == UNION { [1..n -> GoaRows] : n \in 0..MaxGoaRows }

\* goa_df[goa_df.Qualifier.str.startswith("NOT")]
FilterQualifier(goa) == SelectSeq(goa, LAMBDA r : StartsWith(r.Qualifier, Not))

\* goa_df.groupby("GO_ID").agg({"DB_ID": lambda x: x.tolist()}).to_dict():
\* DataFrame.to_dict() is keyed by column, {"DB_ID": {go_id: [DB_ID, ...]}}
UpMapping(goa) ==
    [ column \in {"DB_ID"} |->
        [ go_id \in { goa[i].GO_ID : i \in 1..Len(goa) } |->
            Column(SelectSeq(goa, LAMBDA r : r.GO_ID = go_id), "DB_ID") ] ]

\* the loop over up_mapping.items(): `for up_id in gene_list` runs over the keys
\* of the inner dict, and a key without a name adds nothing
GenesByGoId(goa) ==
    LET up_mapping == UpMapping(FilterQualifier(goa))
        gene_names(go_id) ==
            { GetGeneName(up_id) : up_id \in DOMAIN up_mapping[go_id] } \ {NoGeneName}
    IN [ go_id \in { k \in DOMAIN up_mapping : gene_names(k) # {} } |->
            gene_names(go_id) ]

\* ------------------------------------------------------------------ build_networks
\* the body of build_networks is `pass`: nothing is built for any GO id
BuildNetworksResult(go2genes_map, pair_props) == EmptyDict

\* the maps handed to build_networks: each term absent or with a gene set
GeneSets == { {NameA, NameB}, {NameA, NameB, NameC} }

Go2GenesInputs ==
    UNION { [terms -> GeneSets] : terms \in SUBSET {"T_child", "T_parent"} }

\* the lookups handed to build_networks: those of the tables of at most one
\* row, of statement h1
PairPropsOf(df) ==
    GetPairProperties(DirDict(df), DirEvCount(df), RevDirEvCount(df),
                      UndirEvCount(df), HashTypeDict(df),
                      CHOOSE m \in NameEntityMaps(df) : TRUE)

PairPropsInputs ==
    { PairPropsOf(df) :
        df \in {<<>>} \cup
               { <<r>> : r \in { x \in SifRows(Agents) :
                                   x.stmt_hash = "h1" } } }

\* generate(): genes_by_go_id(), then build_networks
GenesByGoIdCall ==
    /\ ~go2genes.called
    /\ go2genes' = [called |-> TRUE, mapping |-> GenesByGoId(goa_df)]
    /\ UNCHANGED <<props_vars, goa_df, net_args, networks>>

BuildNetworks(go2genes_map, pair_props) ==
    /\ go2genes.called
    /\ ~net_args.called
    /\ net_args' = [called |-> TRUE, go2genes_map |-> go2genes_map,
                    pair_props |-> pair_props]
    /\ networks' = BuildNetworksResult(go2genes_map, pair_props)
    /\ UNCHANGED <<props_vars, goa_df, go2genes>>

NotMapped == [called |-> FALSE, mapping |-> EmptyDict]
NotBuilt == [called |-> FALSE, go2genes_map |-> EmptyDict, pair_props |-> EmptyDict]

GoIdle ==
    /\ goa_df = <<>>
    /\ go2genes = NotMapped
    /\ net_args = NotBuilt
    /\ networks = EmptyDict

PropsIdle ==
    /\ files = NoFile
    /\ pc = "idle"
    /\ props_file \in PropsFileArgs
    /\ locals = NoLocals
    /\ properties = EmptyDict
    /\ result = NoOutcome
    /\ prev = NoOutcome
    /\ files_at_call = NoFile

Init ==
    /\ sif_df \in SifTables(Agents)
    /\ PropsIdle
    /\ GoIdle

InitAmbiguous ==
    /\ sif_df \in SifTables(AgentsAmbiguous)
    /\ PropsIdle
    /\ GoIdle

InitBar ==
    /\ sif_df \in SifTables(AgentsBar)
    /\ PropsIdle
    /\ GoIdle

Next ==
    \/ LoadProps
    \/ Aggregate
    \/ Assemble
    \/ Save

Spec == Init /\ [][Next]_vars

\* the same calls on tables in which a gene name has two (ns, id)
SpecAmbiguous == InitAmbiguous /\ [][Next]_vars

\* the same calls on tables in which a gene name contains "|"
SpecBar == InitBar /\ [][Next]_vars

\* genes_by_go_id on the GAF rows, and build_networks
InitGo ==
    /\ sif_df = <<>>
    /\ PropsIdle
    /\ props_file = NoneValue
    /\ goa_df \in GoaTables
    /\ go2genes = NotMapped
    /\ net_args = NotBuilt
    /\ networks = EmptyDict

NextGo ==
    \/ GenesByGoIdCall
    \/ \E g \in Go2GenesInputs, pp \in PairPropsInputs : BuildNetworks(g, pp)

SpecGo == InitGo /\ [][NextGo]_vars

\* ------------------------------------------------------------------ the claims
\* the index that the last call of generate_props computed and returned
Computed == pc = "idle" /\ result.how = "computed"
Index == result.value

\* DirectionClass of a row: forward when the type is directed and the subject
\* is the first name of the canonical pair, reverse when it is directed and
\* the subject is the second name, undirected otherwise
CanonicalFirst(r) == IF StrLess(r.agB_name, r.agA_name) THEN r.agB_name ELSE r.agA_name

DirectionClass(r) ==
    IF r.stmt_type \in DirectedTypes
    THEN (IF r.agA_name = CanonicalFirst(r) THEN "forward" ELSE "reverse")
    ELSE "undirected"

RowsOf(df, pair, t, class) ==
    SelectSeq(df, LAMBDA r : /\ SetPair(r) = pair
                             /\ r.stmt_type = t
                             /\ DirectionClass(r) = class)

\* the evidence count of a hash: that of the first row that carries it
EvidenceOfHash(rows, h) ==
    rows[CHOOSE i \in 1..Len(rows) :
            /\ rows[i].stmt_hash = h
            /\ \A j \in 1..(i - 1) : rows[j].stmt_hash # h].evidence_count

RECURSIVE SumOverHashes(_, _)
SumOverHashes(rows, H) ==
    IF H = {} THEN 0
    ELSE LET h == CHOOSE x \in H : TRUE
         IN EvidenceOfHash(rows, h) + SumOverHashes(rows, H \ {h})

\* the sum of evidence_count over the distinct hashes of some rows
DistinctHashSum(rows) ==
    SumOverHashes(rows, { rows[i].stmt_hash : i \in 1..Len(rows) })

\* C1: in a computed index, every evidence sum of every pair, statement type
\* and mapping is the sum of evidence_count over the distinct statement hashes
\* of the rows that the mapping is aggregated from, a hash that is on several
\* rows of the pair being counted once.
C1_HashCountedOnce ==
    Computed =>
        \A p \in DOMAIN Index : \A t \in StmtTypes :
            /\ t \in DOMAIN Index[p].directed_evidence_count =>
                 Index[p].directed_evidence_count[t] =
                     DistinctHashSum(SelectSeq(GroupTypeRows(sif_df, p, t),
                                               LAMBDA r : SetDirected(r)))
            /\ t \in DOMAIN Index[p].reverse_directed_evidence_count =>
                 Index[p].reverse_directed_evidence_count[t] =
                     DistinctHashSum(SelectSeq(GroupTypeRows(sif_df, p, t),
                                               LAMBDA r : SetReverseDirected(r)))
            /\ t \in DOMAIN Index[p].undirected_evidence_count =>
                 Index[p].undirected_evidence_count[t] =
                     DistinctHashSum(SelectSeq(GroupTypeRows(sif_df, p, t),
                                               LAMBDA r : ~SetDirected(r)))

\* C2: every statement adds its evidence to exactly one of the three mappings
\* of its pair: a mapping has a statement type exactly when a row of the pair
\* with that type has the mapping's direction class, so that a forward or
\* reverse statement is not in the undirected mapping and no statement is
\* left out of all three.
C2_ExactlyOneMapping ==
    Computed =>
        \A p \in DOMAIN Index : \A t \in StmtTypes :
            /\ t \in DOMAIN Index[p].directed_evidence_count
                 <=> RowsOf(sif_df, p, t, "forward") # <<>>
            /\ t \in DOMAIN Index[p].reverse_directed_evidence_count
                 <=> RowsOf(sif_df, p, t, "reverse") # <<>>
            /\ t \in DOMAIN Index[p].undirected_evidence_count
                 <=> RowsOf(sif_df, p, t, "undirected") # <<>>

HasClass(df, pair, class) ==
    \E i \in 1..Len(df) : SetPair(df[i]) = pair /\ DirectionClass(df[i]) = class

\* C3: in a computed index, directed holds of a pair exactly when a row of the
\* pair is classified forward and reverse_directed exactly when one is
\* classified reverse, and each flag holds exactly when the matching evidence
\* mapping of the pair is not empty.
C3_FlagsIffClassified ==
    Computed =>
        \A p \in DOMAIN Index :
            /\ Index[p].directed <=> HasClass(sif_df, p, "forward")
            /\ Index[p].reverse_directed <=> HasClass(sif_df, p, "reverse")
            /\ Index[p].directed <=> DOMAIN Index[p].directed_evidence_count # {}
            /\ Index[p].reverse_directed
                 <=> DOMAIN Index[p].reverse_directed_evidence_count # {}

\* a computed index with a pair that is directed both ways
C3_Witness ==
    /\ Computed
    /\ \E p \in DOMAIN Index : Index[p].directed /\ Index[p].reverse_directed

\* the (ns, id) of the first row, in table order, on which a name is observed
FirstObserved(df, name) ==
    LET i == CHOOSE k \in 1..Len(df) :
                 /\ name \in {df[k].agA_name, df[k].agB_name}
                 /\ \A j \in 1..(k - 1) : name \notin {df[j].agA_name, df[j].agB_name}
    IN IF df[i].agA_name = name
       THEN Entity(df[i].agA_ns, df[i].agA_id, name)
       ELSE Entity(df[i].agB_ns, df[i].agB_id, name)

\* C9: the call does not raise over a name with several (ns, id), and the two
\* entities of every pair of the computed index carry the (ns, id) of the
\* first row on which their name is observed.
C9_FirstObservedWins ==
    /\ result.how # "raised"
    /\ Computed =>
         \A p \in DOMAIN Index :
             /\ Index[p].a = FirstObserved(sif_df, Index[p].a.name)
             /\ Index[p].b = FirstObserved(sif_df, Index[p].b.name)

Permuted(df, perm) == [ i \in 1..Len(df) |-> df[perm[i]] ]

\* C10: the pairs of a computed index, and the two flags and the three
\* evidence mappings of every pair, are those that the aggregation gives on
\* every permutation of the rows of the table.
C10_RowOrderInvariant ==
    Computed =>
        \A perm \in Permutations(1..Len(sif_df)) :
            LET q == Permuted(sif_df, perm)
                dir_dict == DirDict(q)
                dir_ev_count == DirEvCount(q)
                rev_dir_ev_count == RevDirEvCount(q)
                undir_ev_count == UndirEvCount(q)
            IN /\ DOMAIN Index = DOMAIN dir_dict
               /\ \A p \in DOMAIN Index :
                    /\ Index[p].directed = dir_dict[p].directed
                    /\ Index[p].reverse_directed = dir_dict[p].reverse_directed
                    /\ Index[p].directed_evidence_count = DictGet(dir_ev_count, p)
                    /\ Index[p].reverse_directed_evidence_count
                         = DictGet(rev_dir_ev_count, p)
                    /\ Index[p].undirected_evidence_count
                         = DictGet(undir_ev_count, p)

\* a computed index of a table whose two rows are of one pair and one type,
\* both forward, with different evidence counts
C10_Witness ==
    /\ Computed
    /\ Len(sif_df) = 2
    /\ SetPair(sif_df[1]) = SetPair(sif_df[2])
    /\ sif_df[1].stmt_type = sif_df[2].stmt_type
    /\ sif_df[1].evidence_count # sif_df[2].evidence_count
    /\ SetDirected(sif_df[1]) /\ SetDirected(sif_df[2])

\* C7: a call with a props_file path that computed the lookup leaves a file
\* whose load is the value it returned, so that the next call loads; a call
\* that loads the lookup returns the value that the call before it returned
\* (computed and saved, or loaded), and leaves the file as it found it.
C7_CacheRoundTrip ==
    /\ (Computed /\ props_file = PropsPath) =>
          /\ CacheHit(props_file, files)
          /\ PickleLoad(files.data) = result.value
    /\ (pc = "idle" /\ result.how = "loaded") =>
          /\ prev.how \in {"computed", "loaded"}
          /\ result.value = prev.value
          /\ files = files_at_call

\* a load that follows the call that computed and saved an index of two pairs
C7_Witness ==
    /\ pc = "idle"
    /\ result.how = "loaded"
    /\ prev.how = "computed"
    /\ Cardinality(DOMAIN result.value) >= 2

\* C8: the cache file changes only in the step after get_pair_properties has
\* returned, to the dump of the complete lookup; a call that raised has left
\* the file as it was when the call started.
C8_SaveAfterAssembly ==
    /\ (result.how = "raised" /\ pc = "idle") => files = files_at_call
    /\ pc = "assemble" => files = files_at_call
    /\ pc = "save" =>
         /\ files = files_at_call
         /\ properties = GetPairProperties(
                locals.dir_dict, locals.dir_ev_count, locals.rev_dir_ev_count,
                locals.undir_ev_count, locals.hash_type_dict,
                locals.pair_entity_mapping)

\* a call with a props_file that raised in get_pair_properties, no file written
C8_Witness ==
    /\ pc = "idle"
    /\ result.how = "raised"
    /\ Truthy(props_file)
    /\ files = NoFile

\* the gene set of a term in the returned map (none for an absent term)
GeneSet(t) == IF t \in DOMAIN go2genes.mapping THEN go2genes.mapping[t] ELSE {}

\* the genes that a row which is not negated annotates to a term, resolved
PositiveGenes(goa, t) ==
    { GetGeneName(goa[i].DB_ID) :
        i \in { k \in 1..Len(goa) : /\ goa[k].GO_ID = t
                                    /\ ~StartsWith(goa[k].Qualifier, Not) } }
      \ {NoGeneName}

\* the genes that only negated rows annotate to a term
NegatedOnlyGenes(goa, t) ==
    ({ GetGeneName(goa[i].DB_ID) :
        i \in { k \in 1..Len(goa) : /\ goa[k].GO_ID = t
                                    /\ StartsWith(goa[k].Qualifier, Not) } }
      \ {NoGeneName}) \ PositiveGenes(goa, t)

\* C4: the returned map is closed along the hierarchy: the gene set of a term
\* holds the gene set of every structural descendant, and the genes annotated
\* to the term itself and to every descendant.
C4_ClosedAlongHierarchy ==
    go2genes.called =>
        \A t1 \in GoTerms :
            /\ PositiveGenes(goa_df, t1) \subseteq GeneSet(t1)
            /\ \A t2 \in Descendants(t1) :
                 /\ GeneSet(t2) \subseteq GeneSet(t1)
                 /\ PositiveGenes(goa_df, t2) \subseteq GeneSet(t1)

\* C5: a gene that only negated rows annotate to a term is not in the term's
\* gene set, and a gene that a row which is not negated annotates to it is.
C5_NegatedRowsDiscarded ==
    go2genes.called =>
        \A t \in GoTerms :
            /\ NegatedOnlyGenes(goa_df, t) \cap GeneSet(t) = {}
            /\ \A g \in PositiveGenes(goa_df, t) : g \in GeneSet(t)

\* the pairs of the lookup with both endpoints in a gene set
PairSubset(genes, pair_props) ==
    { PairKey(a, b) : <<a, b>> \in { x \in genes \X genes : x[1] # x[2] } }
      \cap DOMAIN pair_props

\* C6: after build_networks, every term of the map whose pair subset is not
\* empty has a network input whose pairs are exactly that subset, and a term
\* whose subset is empty has none.
C6_InducedSubsets ==
    net_args.called =>
        \A t \in DOMAIN net_args.go2genes_map :
            LET subset == PairSubset(net_args.go2genes_map[t], net_args.pair_props)
            IN IF subset = {}
               THEN t \notin DOMAIN networks
               ELSE /\ t \in DOMAIN networks
                    /\ DOMAIN networks[t] = subset

====
